---------------------------- MODULE Spec2Model ----------------------------
(***************************************************************************)
(* Session / token lifecycle of the Pofara Trustees web client.            *)
(*                                                                         *)
(* The model follows two source units:                                     *)
(*   - the axios client (src/unnamed/part_004): the request interceptor    *)
(*     that attaches the bearer token and the response interceptor that    *)
(*     answers a 401 with one token refresh and one resend;                *)
(*   - the AuthProvider (src/frontend/src/components/layout/Layout.tsx,    *)
(*     lines 402-580): initAuth, login, register, refreshUser, logout.     *)
(*                                                                         *)
(* The Identity Service and the Resource APIs are not part of the client:  *)
(* they are the environment, and every answer they can give is a           *)
(* nondeterministic choice of the response actions.                        *)
(***************************************************************************)
EXTENDS Integers, FiniteSets, Sequences, TLC

\* ------------------------------------------------------------------ bounds
\* Number of request slots: requests issued through the api client in one
\* page load.
MaxReqs == 3
\* Number of token issuances the Identity Service performs in one run.
MaxTok == 2
\* Number of distinct accounts.
MaxUsers == 2
MaxPwLen == 8
MaxPwVariants == 2
\* Number of further slots that only the loads of the projects page take.
MaxLoads == 2
\* Number of services, and of countries, the onboarding wizard offers.
MaxChoices == 2

Slots == 1..(MaxReqs + MaxLoads)
Users == 1..MaxUsers

\* ------------------------------------------------------------------ values
\* A token is identified by the account it was issued to and by the serial
\* number of its issuance; the access and the refresh token of one issuance
\* carry the same serial.  NoToken is the absent localStorage key (null).
NoToken == [u |-> 0, n |-> 0]
Token(u, n) == [u |-> u, n |-> n]

\* user state of the AuthProvider: 0 is null.
NoUser == 0

\* HTTP status of a response; 0 is a transport failure (error.response
\* undefined).
OK == 200
ErrStatuses == {0, 400, 401}

Kinds == {"login", "register", "profile", "logout", "resource"}

\* A request slot that holds no request.
EmptyReq ==
  [kind |-> "none", pc |-> "idle", retry |-> FALSE, sends |-> 0,
   hdr |-> NoToken, cred |-> NoUser, boot |-> FALSE, fromAnon |-> FALSE,
   nrefresh |-> 0, rt |-> NoToken, newAccess |-> NoToken,
   newRefresh |-> NoToken, last |-> -1, first |-> -1, outcome |-> "none",
   data |-> NoToken, errs |-> {},
   form |-> FALSE, cap |-> -1, isRetry |-> FALSE, caught |-> -1,
   create |-> FALSE]

VARIABLES
  localStorage,  \* [access_token, refresh_token]: the two persisted keys
  user,          \* AuthProvider's user state (NoUser = null)
  isLoading,     \* AuthProvider's isLoading state
  booted,        \* the mount effect (initAuth) of this page load has run
  href,          \* last value assigned to window.location.href on this page
  reqs,          \* the requests issued through the api client, by slot
  issued,        \* Identity Service: serial of the last issuance
  logoutRun,     \* number of logout() calls made in a row (capped at 2)
  registerPage,  \* RegisterPage: formData (password, confirmPassword), error, isLoading
  projectsPage,  \* ProjectsPage: mounted, loading, error, retryCount, pending timers
  onboardingPage, \* OnboardingPage: currentStep, selections, timeline, loading, error
  catchError     \* a caught error's response data and the messages derived from it

vars == <<localStorage, user, isLoading, booted, href, reqs, issued, logoutRun,
          registerPage, projectsPage, onboardingPage, catchError>>

pages == <<registerPage, projectsPage, onboardingPage, catchError>>
others == <<onboardingPage, catchError>>

\* isAuthenticated = !!user
isAuthenticated == user # NoUser


\* ------------------------------------------------------------- api client
\* Attach of a client on which the request interceptor was never registered.
AttachNone(st) == [u |-> 0, n |-> 0]

\* Request interceptor: the Authorization header of a request is the access
\* token found in localStorage when the request is sent; no header
\* (NoToken) when the key is absent.
Attach(st) == st.access_token

\* A new request takes the lowest slot that has held none since the page
\* was loaded.
Idle(rq) == {i \in 1..MaxReqs : rq[i].pc = "idle"}
InFlight(rq) == {i \in Slots : rq[i].pc \in {"sent", "refreshing"}}
Alloc(rq) == CHOOSE i \in Idle(rq) : \A j \in Idle(rq) : i <= j

\* api.post / api.get: a new request, sent with the header the request
\* interceptor gives it.
NewReq(kind, st) ==
  [EmptyReq EXCEPT !.kind = kind, !.pc = "sent", !.sends = 1,
                   !.hdr = Attach(st)]

AddReq(rq, rec) == [rq EXCEPT ![Alloc(rq)] = rec]

\* The same for a load of the projects page.
IdleLoad(rq) == {i \in Slots : rq[i].pc = "idle"}
AddLoad(rq, rec) ==
  [rq EXCEPT ![CHOOSE i \in IdleLoad(rq) : \A j \in IdleLoad(rq) : i <= j] = rec]


\* ShouldRefresh of an interceptor that takes every failure for an expired
\* access token.
ShouldRefreshAnyFailure(status, retry) == status # OK /\ ~retry

\* ShouldRefresh without the per-request _retry flag.
ShouldRefreshNoFlag(status, retry) == status = 401

\* Response interceptor, line 32: the condition under which a failed
\* response starts the refresh-and-retry.
ShouldRefresh(status, retry) == status = 401 /\ ~retry

\* Response interceptor, lines 45-46: what a successful refresh stores.
\* Only the access token of the answer is written.
StoreRefreshed(st, access, refresh) == [st EXCEPT !.access_token = access]

\* Response interceptor, lines 53-54, and logout, lines 545-546.
ClearTokens(st) == [access_token |-> NoToken, refresh_token |-> NoToken]


\* Resend that leaves the header of the first send on the request.
ResendOldHeader(rec, access, st) ==
  [rec EXCEPT !.pc = "sent", !.sends = rec.sends + 1]

\* Response interceptor, lines 48-50: the resend of the original request.
\* Line 49 sets the header to the new access token, then the request
\* interceptor runs again on the resend and overwrites it with the stored
\* token when there is one.
Resend(rec, access, st) ==
  [rec EXCEPT !.pc = "sent", !.sends = rec.sends + 1,
              !.hdr = IF Attach(st) # NoToken THEN Attach(st) ELSE access]


\* LoginStore that forgets the refresh token.
LoginStoreAccessOnly(st, tok) == [st EXCEPT !.access_token = tok]

\* ----------------------------------------------------------- AuthProvider
\* login / register, lines 463-467 and 496-500: what a successful answer
\* stores.
LoginStore(st, tok) == [access_token |-> tok, refresh_token |-> tok]


\* LoginApply without the try / catch split: the failure payload is
\* destructured and stored like a successful one, which writes the string
\* 'undefined' under both keys.
UndefinedToken == [u |-> 0, n |-> -1]
LoginApplyNoCatch(out, st, u, tok) ==
  IF out = "ok" THEN [st |-> [access_token |-> tok, refresh_token |-> tok], user |-> tok.u]
                ELSE [st |-> [access_token |-> UndefinedToken, refresh_token |-> UndefinedToken],
                      user |-> u]

\* login / register, try / catch: the storage and the user after the call
\* settled with outcome out, st being the storage the interceptor left.
LoginApply(out, st, u, tok) ==
  IF out = "ok" THEN [st |-> LoginStore(st, tok), user |-> tok.u]
                ELSE [st |-> st, user |-> u]

\* RegisterApply that forgets setUser(newUser).
RegisterApplyNoUser(out, st, u, tok) ==
  IF out = "ok" THEN [st |-> LoginStore(st, tok), user |-> u]
                ELSE [st |-> st, user |-> u]

\* register, lines 494-505 (try) and 506-526 (catch): as login does.
RegisterApply(out, st, u, tok) ==
  IF out = "ok" THEN [st |-> LoginStore(st, tok), user |-> tok.u]
                ELSE [st |-> st, user |-> u]

\* ProfileUser that drops the profile it received.
ProfileUserDropped(data) == 0

\* refreshUser, line 535: setUser(response.data).
ProfileUser(data) == data.u

\* BootDone with setIsLoading(false) inside initAuth's try block, skipped
\* when refreshUser throws.
BootDoneInTry(boot, ok, loading) == IF boot /\ ok THEN FALSE ELSE loading

\* initAuth, line 452: setIsLoading(false) once refreshUser has returned or
\* thrown; a refreshUser called through the context leaves isLoading alone.
BootDone(boot, ok, loading) == IF boot THEN FALSE ELSE loading

\* DoLogout that issues the notification request before it removes the keys.
DoLogoutNotifyFirst(s) ==
  [st |-> ClearTokens(s.st),
   user |-> NoUser,
   rq |-> AddReq(s.rq, NewReq("logout", s.st)),
   href |-> "/"]

\* DoLogout that returns early when no user is set.
DoLogoutIfUser(s) ==
  IF s.user = NoUser
    THEN s
    ELSE [st |-> ClearTokens(s.st),
          user |-> NoUser,
          rq |-> AddReq(s.rq, NewReq("logout", ClearTokens(s.st))),
          href |-> "/"]

\* logout(), lines 543-554, on the session s = [st, user, rq, href]:
\* both keys removed, user null, the notification request issued through
\* the api client (after the keys were removed), redirect to '/'.
DoLogout(s) ==
  LET cleared == ClearTokens(s.st)
  IN [st |-> cleared,
      user |-> NoUser,
      rq |-> AddReq(s.rq, NewReq("logout", cleared)),
      href |-> "/"]

\* refreshUser's catch (line 538) calls logout(); when refreshUser was
\* called by initAuth, initAuth's catch (line 449) calls logout() again.
LogoutTimes(boot) == IF boot THEN 2 ELSE 1

Session(rq, st, hr) == [st |-> st, user |-> user, rq |-> rq, href |-> hr]

\* The fields of error.response.data that a failure answer to login or
\* register can carry: nothing without a response (transport failure),
\* serializer errors on a 400, a detail message on a 401.  The error of
\* another request is not read by the AuthProvider.
Payloads(kind, status) ==
  IF kind \notin {"login", "register"} \/ status \in {OK, 0} THEN {{}}
  ELSE IF status = 401 THEN {{"detail"}}
  ELSE IF status = 400 THEN {{"non_field_errors"}, {"email", "password"}}
  ELSE {{}}

\* LoginMessage without the default message.
LoginMessageNoDefault(errs) ==
  IF "non_field_errors" \in errs THEN "non_field_errors[0]"
  ELSE IF "detail" \in errs THEN "detail"
  ELSE ""

\* login's catch, lines 475-477: the message of the result.
LoginDefault == "Login failed. Please check your credentials."
LoginMessage(errs) ==
  IF "non_field_errors" \in errs THEN "non_field_errors[0]"
  ELSE IF "detail" \in errs THEN "detail"
  ELSE LoginDefault

\* RegisterMessage of a catch that looks at password before email.
RegisterMessagePasswordFirst(errs) ==
  IF "password" \in errs THEN "password[0]"
  ELSE IF "email" \in errs THEN "email[0]"
  ELSE IF "non_field_errors" \in errs THEN "non_field_errors[0]"
  ELSE IF "detail" \in errs THEN "detail"
  ELSE "Registration failed. Please try again."

\* register's catch, lines 510-524: the message of the result.
RegisterDefault == "Registration failed. Please try again."
RegisterMessage(errs) ==
  IF "email" \in errs THEN "email[0]"
  ELSE IF "password" \in errs THEN "password[0]"
  ELSE IF "non_field_errors" \in errs THEN "non_field_errors[0]"
  ELSE IF "detail" \in errs THEN "detail"
  ELSE RegisterDefault

\* What login() / register() resolve to for the settled request rec:
\* { success: true } (lines 472, 505) or { success: false, error }
\* (lines 478, 526).
Result(rec) ==
  IF rec.outcome = "ok" THEN [success |-> TRUE, error |-> ""]
  ELSE [success |-> FALSE,
        error |-> IF rec.kind = "login" THEN LoginMessage(rec.errs)
                                        ELSE RegisterMessage(rec.errs)]

\* ----------------------------------------------------------- RegisterPage
\* Passwords typed into the form: a length and, among the passwords of one
\* length, which one it is.  The empty string is the only one of length 0.
MinPasswordLength == 8
EmptyPassword == [len |-> 0, v |-> 1]
Passwords ==
  {EmptyPassword} \cup
  {[len |-> l, v |-> v] : l \in (MinPasswordLength - 1)..MaxPwLen, v \in 1..MaxPwVariants}

\* useState of lines 7-18: an empty form, no error, not loading.  The other
\* fields of the form (names, email, phone) are taken as filled in.
RegisterPageInit ==
  [password |-> EmptyPassword, confirmPassword |-> EmptyPassword,
   error |-> "", isLoading |-> FALSE]

\* handleSubmit's validation without the length check.
ValidateNoLength(password, confirmPassword) ==
  IF password # confirmPassword THEN "Passwords do not match"
  ELSE ""

\* handleSubmit, lines 45-57: the local validation; "" when it passes.
Validate(password, confirmPassword) ==
  IF password # confirmPassword THEN "Passwords do not match"
  ELSE IF password.len < MinPasswordLength
         THEN "Password must be at least 8 characters long"
  ELSE ""

\* isFormValid, lines 72-78: what enables the submit button.
isFormValid(formData) ==
  /\ formData.password # EmptyPassword
  /\ formData.confirmPassword # EmptyPassword
  /\ formData.password = formData.confirmPassword

\* handleSubmit after the await, lines 62-69, for the settled request rec.
SubmitDone(pg, rec) ==
  IF ~rec.form THEN pg
  ELSE [pg EXCEPT !.error = IF Result(rec).success THEN pg.error
                            ELSE Result(rec).error,
                  !.isLoading = FALSE]

\* ----------------------------------------------------------- ProjectsPage
ServerError == 500
MaxAutoRetries == 2

\* useState of lines 20-24.
ProjectsPageInit ==
  [mounted |-> FALSE, loading |-> TRUE, error |-> FALSE, retryCount |-> 0,
   timers |-> <<>>]

\* err.code of the error a caller catches: axios marks a failure without a
\* response ERR_NETWORK and a rejected response ERR_BAD_REQUEST /
\* ERR_BAD_RESPONSE.
ErrCode(caught) ==
  IF caught = 0 THEN "ERR_NETWORK"
  ELSE IF caught >= ServerError THEN "ERR_BAD_RESPONSE"
  ELSE "ERR_BAD_REQUEST"

\* loadProjects' catch, line 88: cap is the retryCount of the render whose
\* loadProjects is running, caught the status of the error (0: no response).
ShouldAutoRetry(cap, caught) ==
  /\ cap < MaxAutoRetries
  /\ (ErrCode(caught) = "NETWORK_ERROR" \/ caught >= ServerError)

\* loadProjects after the await, lines 76-97, for the settled request rec.
LoadDone(pg, rec) ==
  IF rec.cap < 0 THEN pg
  ELSE IF rec.outcome = "ok"
    THEN [pg EXCEPT !.retryCount = 0, !.loading = FALSE]
  ELSE [pg EXCEPT !.error = TRUE,
                  !.loading = FALSE,
                  !.timers = IF ShouldAutoRetry(rec.cap, rec.caught)
                               THEN Append(@, rec.cap) ELSE @]

\* --------------------------------------------------------- OnboardingPage
\* The ids of the services and the names of the countries offered (lines
\* 35-123), the fallback values first; the timeline options (lines 125-130).
ServiceIds == {<<"other", "construction", "renovation">>[i] : i \in 1..MaxChoices}
CountryNames == {<<"Nigeria", "Ghana", "Kenya">>[i] : i \in 1..MaxChoices}
TimelineOptions == {"1", "3", "6", "12"}

\* The project sent by the last handleComplete; none yet.
NoProject ==
  [project_type |-> "", country |-> "", months |-> "", fallbacks |-> {}, step |-> 0]

\* useState of lines 27-33.
OnboardingPageInit ==
  [currentStep |-> 1, selectedServices |-> <<>>, selectedCountries |-> <<>>,
   timeline |-> "", loading |-> FALSE, error |-> FALSE, left |-> FALSE,
   projectData |-> NoProject]

\* toggleService / toggleCountry, lines 132-146: remove x from the array
\* when it is there, else append it.
Toggle(seq, x) ==
  IF \E i \in 1..Len(seq) : seq[i] = x
    THEN SelectSeq(seq, LAMBDA y : y # x)
    ELSE Append(seq, x)

\* canProceed of a wizard that lets every step through.
canProceedAlways(pg) == pg.currentStep \in 1..3

\* canProceed, lines 238-245.
canProceed(pg) ==
  CASE pg.currentStep = 1 -> pg.selectedServices # <<>>
    [] pg.currentStep = 2 -> pg.selectedCountries # <<>>
    [] pg.currentStep = 3 -> pg.timeline # ""
    [] OTHER -> FALSE

\* handleComplete, lines 165-184: the project built from the selections.
\* fallbacks names the fields that took their fallback value, step is the
\* step the wizard was at.
ProjectData(pg) ==
  [project_type |-> IF pg.selectedServices = <<>> THEN "other"
                    ELSE pg.selectedServices[1],
   country |-> IF pg.selectedCountries = <<>> THEN "Nigeria"
               ELSE pg.selectedCountries[1],
   months |-> IF pg.timeline = "" THEN "1" ELSE pg.timeline,
   fallbacks |-> {f \in {"project_type", "country", "timeline"} :
                    \/ f = "project_type" /\ pg.selectedServices = <<>>
                    \/ f = "country" /\ pg.selectedCountries = <<>>
                    \/ f = "timeline" /\ pg.timeline = ""},
   step |-> pg.currentStep]

\* handleComplete after the await, lines 190-235, for the settled request
\* rec: navigate to /projects, or show the error.
CreateDone(pg, rec) ==
  IF ~rec.create THEN pg
  ELSE IF rec.outcome = "ok"
    THEN [pg EXCEPT !.left = TRUE, !.loading = FALSE]
  ELSE [pg EXCEPT !.error = TRUE, !.loading = FALSE]

\* ------------------------------------------------------- caught errors
\* The fields an error payload of the Identity Service can carry;
\* first_name stands for the fields neither catch reads.
Fields == {"email", "password", "non_field_errors", "detail", "first_name"}

NoCatch == [data |-> {}, login |-> "none", register |-> "none"]

\* The caller's continuation once the request in slot r has settled with
\* outcome out.  rq, st and hr are the requests, the storage and the href
\* as the response interceptor left them.
Finish(r, rq, st, hr, out) ==
  LET k == rq[r].kind
      done == [rq EXCEPT ![r].pc = "done", ![r].outcome = out]
  IN CASE k \in {"login", "register"} ->
            LET a == IF k = "login" THEN LoginApply(out, st, user, rq[r].data)
                                    ELSE RegisterApply(out, st, user, rq[r].data)
            IN /\ localStorage' = a.st
               /\ user' = a.user
               /\ isLoading' = FALSE
               /\ reqs' = done
               /\ href' = hr
               /\ logoutRun' = 0
               /\ registerPage' = SubmitDone(registerPage, done[r])
               /\ UNCHANGED <<projectsPage, others>>
       [] k = "profile" /\ out = "ok" ->
            /\ user' = ProfileUser(rq[r].data)
            /\ isLoading' = BootDone(rq[r].boot, TRUE, isLoading)
            /\ localStorage' = st
            /\ reqs' = done
            /\ href' = hr
            /\ logoutRun' = 0
            /\ UNCHANGED pages
       [] k = "profile" /\ out # "ok" ->
            /\ Cardinality(Idle(done)) >= LogoutTimes(rq[r].boot)
            /\ LET s1 == DoLogout(Session(done, st, hr))
                   s2 == IF rq[r].boot THEN DoLogout(s1) ELSE s1
               IN /\ localStorage' = s2.st
                  /\ user' = s2.user
                  /\ reqs' = s2.rq
                  /\ href' = s2.href
            /\ isLoading' = BootDone(rq[r].boot, FALSE, isLoading)
            /\ logoutRun' = LogoutTimes(rq[r].boot)
            /\ UNCHANGED pages
       [] OTHER ->
            /\ localStorage' = st
            /\ reqs' = done
            /\ href' = hr
            /\ logoutRun' = 0
            /\ projectsPage' = LoadDone(projectsPage, done[r])
            /\ onboardingPage' = CreateDone(onboardingPage, done[r])
            /\ UNCHANGED <<user, isLoading, registerPage, catchError>>

\* The data of a 200 answer: the issued token pair for login / register,
\* the profile of the account the bearer token belongs to for a profile
\* request.
Answer(rec, status) ==
  IF status # OK THEN NoToken
  ELSE IF rec.kind \in {"login", "register"} THEN Token(rec.cred, issued + 1)
  ELSE IF rec.kind = "profile" THEN rec.hdr
  ELSE NoToken

\* Which answers the services can give to the request rec: any failure; a
\* 200 to login / register while the service still issues tokens, to the
\* logout notification whatever it carries, to the others only when they
\* carry a bearer token.
CanAnswer(rec, status) ==
  \/ status # OK
  \/ /\ status = OK
     /\ CASE rec.kind \in {"login", "register"} -> issued < MaxTok
          [] rec.kind = "logout" -> TRUE
          [] OTHER -> rec.hdr # NoToken

TypeOK ==
  /\ localStorage \in [access_token : {NoToken} \cup {Token(u, n) : u \in Users, n \in 1..MaxTok},
                       refresh_token : {NoToken} \cup {Token(u, n) : u \in Users, n \in 1..MaxTok}]
  /\ user \in {NoUser} \cup Users
  /\ isLoading \in BOOLEAN
  /\ booted \in BOOLEAN
  /\ href \in {"none", "/", "/login"}
  /\ issued \in 0..MaxTok
  /\ logoutRun \in 0..2
  /\ \A i \in Slots : reqs[i].kind \in Kinds \cup {"none"}
  /\ registerPage.password \in Passwords
  /\ registerPage.confirmPassword \in Passwords
  /\ registerPage.isLoading \in BOOLEAN
  /\ projectsPage.retryCount \in 0..(MaxReqs + MaxLoads)
  /\ Len(projectsPage.timers) <= MaxReqs + MaxLoads
  /\ onboardingPage.currentStep \in 0..4
  /\ onboardingPage.timeline \in TimelineOptions \cup {""}
  /\ catchError.data \subseteq Fields

\* ------------------------------------------------------------------ Init
\* A page load with nothing persisted: useState(null), useState(true).
Init ==
  /\ localStorage = [access_token |-> NoToken, refresh_token |-> NoToken]
  /\ user = NoUser
  /\ isLoading = TRUE
  /\ booted = FALSE
  /\ href = "none"
  /\ reqs = [i \in Slots |-> EmptyReq]
  /\ issued = 0
  /\ logoutRun = 0
  /\ registerPage = RegisterPageInit
  /\ projectsPage = ProjectsPageInit
  /\ onboardingPage = OnboardingPageInit
  /\ catchError = NoCatch

\* --------------------------------------------------------------- actions
\* The mount effect, lines 441-456.
InitAuth ==
  /\ ~booted
  /\ booted' = TRUE
  /\ IF Attach(localStorage) # NoToken
       THEN /\ reqs' = AddReq(reqs, [NewReq("profile", localStorage) EXCEPT !.boot = TRUE])
            /\ UNCHANGED isLoading
       ELSE /\ isLoading' = FALSE
            /\ UNCHANGED reqs
  /\ logoutRun' = 0
  /\ UNCHANGED <<localStorage, user, href, issued, pages>>

\* login(credentials), lines 458-461: up to the await.
Login(u) ==
  /\ booted
  /\ Idle(reqs) # {}
  /\ isLoading' = TRUE
  /\ reqs' = AddReq(reqs, [NewReq("login", localStorage) EXCEPT
                             !.cred = u,
                             !.fromAnon = (user = NoUser /\ localStorage = ClearTokens(localStorage))])
  /\ logoutRun' = 0
  /\ UNCHANGED <<localStorage, user, booted, href, issued, pages>>

\* register(userData), lines 484-494: up to the await.  form says whether
\* the caller is RegisterPage's handleSubmit.
RegisterStart(u, form) ==
  /\ booted
  /\ Idle(reqs) # {}
  /\ isLoading' = TRUE
  /\ reqs' = AddReq(reqs, [NewReq("register", localStorage) EXCEPT
                             !.cred = u,
                             !.form = form,
                             !.fromAnon = (user = NoUser /\ localStorage = ClearTokens(localStorage))])
  /\ logoutRun' = 0
  /\ UNCHANGED <<localStorage, user, booted, href, issued>>

\* register(userData) called through the context.
Register(u) ==
  /\ RegisterStart(u, FALSE)
  /\ UNCHANGED pages

\* RegisterPage.handleChange, lines 30-38, for the password fields; the
\* inputs are disabled while the page is loading.
HandleChange(name, value) ==
  /\ ~isAuthenticated
  /\ ~registerPage.isLoading
  /\ registerPage' = [registerPage EXCEPT ![name] = value, !.error = ""]
  /\ logoutRun' = 0
  /\ UNCHANGED <<localStorage, user, isLoading, booted, href, reqs, issued,
                 projectsPage, others>>

\* RegisterPage.handleSubmit, lines 40-60: up to the await.  The submit
\* event comes from the submit button, which is enabled only when
\* isFormValid and not loading (line 274), or is dispatched to the form
\* without it (form.requestSubmit(), a test harness).
HandleSubmit(u, viaButton) ==
  /\ ~isAuthenticated
  /\ viaButton => (isFormValid(registerPage) /\ ~registerPage.isLoading)
  /\ LET err == Validate(registerPage.password, registerPage.confirmPassword)
     IN IF err # ""
          THEN /\ registerPage' = [registerPage EXCEPT !.error = err,
                                                       !.isLoading = FALSE]
               /\ logoutRun' = 0
               /\ UNCHANGED <<localStorage, user, isLoading, booted, href,
                              reqs, issued, projectsPage, others>>
          ELSE /\ RegisterStart(u, TRUE)
               /\ registerPage' = [registerPage EXCEPT !.error = "",
                                                       !.isLoading = TRUE]
               /\ UNCHANGED <<projectsPage, others>>

\* refreshUser(), lines 532-534, called through the context: up to the await.
RefreshUser ==
  /\ booted
  /\ Idle(reqs) # {}
  /\ reqs' = AddReq(reqs, NewReq("profile", localStorage))
  /\ logoutRun' = 0
  /\ UNCHANGED <<localStorage, user, isLoading, booted, href, issued, pages>>

\* logout(), lines 543-554, called through the context.
Logout ==
  /\ booted
  /\ Idle(reqs) # {}
  /\ LET s1 == DoLogout(Session(reqs, localStorage, href))
     IN /\ localStorage' = s1.st
        /\ user' = s1.user
        /\ reqs' = s1.rq
        /\ href' = s1.href
  /\ logoutRun' = IF logoutRun < 2 THEN logoutRun + 1 ELSE 2
  /\ UNCHANGED <<isLoading, booted, issued, pages>>

\* A Resource API call (projectsAPI, inspectorsAPI, messagesAPI), lines 82-103.
ResourceCall ==
  /\ booted
  /\ Idle(reqs) # {}
  /\ reqs' = AddReq(reqs, NewReq("resource", localStorage))
  /\ logoutRun' = 0
  /\ UNCHANGED <<localStorage, user, isLoading, booted, href, issued, pages>>

\* loadProjects(isRetry), lines 46-58: up to the await.  cap is the
\* retryCount of the render whose loadProjects this is.
LoadStart(isRetry, cap, pg) ==
  /\ IdleLoad(reqs) # {}
  /\ reqs' = AddLoad(reqs, [NewReq("resource", localStorage) EXCEPT
                              !.cap = cap, !.isRetry = isRetry])
  /\ projectsPage' = [pg EXCEPT !.error = FALSE,
                                !.loading = IF isRetry THEN pg.loading ELSE TRUE]
  /\ logoutRun' = 0
  /\ UNCHANGED <<localStorage, user, isLoading, booted, href, issued, registerPage,
                 others>>

\* ProjectsPage's mount effect, lines 41-44.
MountProjects ==
  /\ booted
  /\ ~projectsPage.mounted
  /\ LoadStart(FALSE, projectsPage.retryCount,
               [projectsPage EXCEPT !.mounted = TRUE])

\* handleRetry, lines 101-105: the Retry button of the error panel.
HandleRetry ==
  /\ projectsPage.mounted /\ projectsPage.error /\ ~projectsPage.loading
  /\ LoadStart(FALSE, projectsPage.retryCount,
               [projectsPage EXCEPT !.retryCount = 0])

\* The timer set at lines 90-93 fires: the loadProjects that set it runs
\* again, with the retryCount it had captured.
RetryTimer ==
  /\ projectsPage.timers # <<>>
  /\ LoadStart(TRUE, Head(projectsPage.timers),
               [projectsPage EXCEPT !.retryCount = @ + 1,
                                    !.timers = Tail(@)])

\* OnboardingPage: a service card (step 1) or a country (step 2) is
\* clicked, a timeline option (step 3) is chosen; lines 273, 340, 396.
ToggleService(id) ==
  /\ ~onboardingPage.left
  /\ onboardingPage.currentStep = 1
  /\ onboardingPage' = [onboardingPage EXCEPT !.selectedServices = Toggle(@, id)]
  /\ logoutRun' = 0
  /\ UNCHANGED <<localStorage, user, isLoading, booted, href, reqs, issued,
                 registerPage, projectsPage, catchError>>

ToggleCountry(country) ==
  /\ ~onboardingPage.left
  /\ onboardingPage.currentStep = 2
  /\ onboardingPage' = [onboardingPage EXCEPT !.selectedCountries = Toggle(@, country)]
  /\ logoutRun' = 0
  /\ UNCHANGED <<localStorage, user, isLoading, booted, href, reqs, issued,
                 registerPage, projectsPage, catchError>>

SetTimeline(value) ==
  /\ ~onboardingPage.left
  /\ onboardingPage.currentStep = 3
  /\ onboardingPage' = [onboardingPage EXCEPT !.timeline = value]
  /\ logoutRun' = 0
  /\ UNCHANGED <<localStorage, user, isLoading, booted, href, reqs, issued,
                 registerPage, projectsPage, catchError>>

\* handleNext, lines 148-152, behind the Continue button (lines 543-546:
\* shown while currentStep < 3, disabled unless canProceed()).
HandleNext ==
  /\ ~onboardingPage.left
  /\ onboardingPage.currentStep < 3
  /\ canProceed(onboardingPage)
  /\ onboardingPage' = [onboardingPage EXCEPT !.currentStep =
                          IF @ < 3 THEN @ + 1 ELSE @]
  /\ logoutRun' = 0
  /\ UNCHANGED <<localStorage, user, isLoading, booted, href, reqs, issued,
                 registerPage, projectsPage, catchError>>

\* handleBack, lines 154-158, behind the Back button (disabled at step 1).
HandleBack ==
  /\ ~onboardingPage.left
  /\ onboardingPage.currentStep # 1
  /\ onboardingPage' = [onboardingPage EXCEPT !.currentStep =
                          IF @ > 1 THEN @ - 1 ELSE @]
  /\ logoutRun' = 0
  /\ UNCHANGED <<localStorage, user, isLoading, booted, href, reqs, issued,
                 registerPage, projectsPage, catchError>>

\* handleComplete, lines 160-189: up to the await; behind the Create
\* Project button (lines 557-559: shown when currentStep is not below 3,
\* disabled unless canProceed() and not loading).
HandleComplete ==
  /\ booted
  /\ ~onboardingPage.left
  /\ ~(onboardingPage.currentStep < 3)
  /\ canProceed(onboardingPage) /\ ~onboardingPage.loading
  /\ Idle(reqs) # {}
  /\ reqs' = AddReq(reqs, [NewReq("resource", localStorage) EXCEPT !.create = TRUE])
  /\ onboardingPage' = [onboardingPage EXCEPT
                          !.loading = TRUE,
                          !.error = FALSE,
                          !.projectData = ProjectData(onboardingPage)]
  /\ logoutRun' = 0
  /\ UNCHANGED <<localStorage, user, isLoading, booted, href, issued,
                 registerPage, projectsPage, catchError>>

\* login's catch, lines 473-478, and register's, lines 506-526, run on the
\* caught error.
LoginCatch ==
  /\ catchError.login = "none"
  /\ catchError' = [catchError EXCEPT !.login = LoginMessage(catchError.data)]
  /\ UNCHANGED <<localStorage, user, isLoading, booted, href, reqs, issued,
                 logoutRun, registerPage, projectsPage, onboardingPage>>

RegisterCatch ==
  /\ catchError.register = "none"
  /\ catchError' = [catchError EXCEPT !.register = RegisterMessage(catchError.data)]
  /\ UNCHANGED <<localStorage, user, isLoading, booted, href, reqs, issued,
                 logoutRun, registerPage, projectsPage, onboardingPage>>

\* The answer to the request in slot r arrives with the given status and
\* goes through the response interceptor (lines 27-62), then to the caller.
Respond(r, status, payload) ==
  /\ reqs[r].pc = "sent"
  /\ CanAnswer(reqs[r], status)
  /\ LET rec == [reqs[r] EXCEPT !.last = status,
                               !.errs = payload,
                               !.first = IF reqs[r].first = -1 THEN status ELSE reqs[r].first,
                               !.data = Answer(reqs[r], status)]
         rq == [reqs EXCEPT ![r] = rec]
         \* the error the caller catches, where the caller reads it
         none == IF rec.cap >= 0 THEN 0 ELSE -1
         fail == IF rec.cap >= 0 THEN status ELSE -1
     IN /\ issued' = IF status = OK /\ rec.kind \in {"login", "register"}
                       THEN issued + 1 ELSE issued
        /\ IF status = OK
             THEN /\ Finish(r, rq, localStorage, href, "ok")
                  /\ UNCHANGED booted
           ELSE IF ShouldRefresh(status, rec.retry)
             THEN IF localStorage.refresh_token = NoToken
                    THEN \* 'No refresh token' thrown, lines 37-39, caught at 51
                         /\ Finish(r, [rq EXCEPT ![r].retry = TRUE, ![r].errs = {},
                                                 ![r].caught = none],
                                   ClearTokens(localStorage), "/login", "refresh_failed")
                         /\ UNCHANGED booted
                    ELSE \* the refresh exchange is posted, lines 41-43
                         /\ reqs' = [rq EXCEPT ![r].retry = TRUE,
                                               ![r].pc = "refreshing",
                                               ![r].rt = localStorage.refresh_token,
                                               ![r].nrefresh = rec.nrefresh + 1]
                         /\ logoutRun' = 0
                         /\ UNCHANGED <<localStorage, user, isLoading, booted, href, pages>>
           ELSE /\ Finish(r, [rq EXCEPT ![r].caught = fail], localStorage, href, "rejected")
                /\ UNCHANGED booted

\* The token-refresh endpoint accepts the refresh token of slot r's exchange
\* and answers {access[, refresh]}; rotated says whether a new refresh token
\* comes with it.  Lines 45-50.
RefreshOk(r, rotated) ==
  /\ reqs[r].pc = "refreshing"
  /\ issued < MaxTok
  /\ LET access == Token(reqs[r].rt.u, issued + 1)
         refresh == IF rotated THEN Token(reqs[r].rt.u, issued + 1) ELSE NoToken
         st == StoreRefreshed(localStorage, access, refresh)
     IN /\ localStorage' = st
        /\ reqs' = [reqs EXCEPT ![r] =
                      [Resend(reqs[r], access, st) EXCEPT !.newAccess = access,
                                                         !.newRefresh = refresh]]
  /\ issued' = issued + 1
  /\ logoutRun' = 0
  /\ UNCHANGED <<user, isLoading, booted, href, pages>>

\* RefreshFail of a client that posts the refresh exchange through the
\* intercepted api instance: a 401 answer to the exchange starts another one.
RefreshFailIntercepted(r, status) ==
  /\ reqs[r].pc = "refreshing"
  /\ IF status = 401
       THEN /\ reqs' = [reqs EXCEPT ![r].nrefresh = @ + 1]
            /\ logoutRun' = 0
            /\ UNCHANGED <<localStorage, user, isLoading, href, pages>>
       ELSE \E payload \in Payloads(reqs[r].kind, status) :
              Finish(r, [reqs EXCEPT ![r].errs = payload],
                     ClearTokens(localStorage), "/login", "refresh_failed")
  /\ UNCHANGED <<booted, issued>>

\* The token-refresh endpoint rejects the exchange (status 401) or the
\* transport fails (status 0): the catch of lines 51-57 rejects with that
\* error, then the caller's continuation runs.
RefreshFail(r, status) ==
  /\ reqs[r].pc = "refreshing"
  /\ \E payload \in Payloads(reqs[r].kind, status) :
       Finish(r, [reqs EXCEPT ![r].errs = payload,
                              ![r].caught = IF reqs[r].cap >= 0 THEN status ELSE -1],
              ClearTokens(localStorage), "/login", "refresh_failed")
  /\ UNCHANGED <<booted, issued>>

\* The page is (re)loaded: by the navigation a href assignment started or by
\* the user.  The AuthProvider is constructed anew (lines 435-436), the
\* pending requests of the old page are gone, localStorage persists.
Reload ==
  /\ user' = NoUser
  /\ isLoading' = TRUE
  /\ booted' = FALSE
  /\ href' = "none"
  /\ reqs' = [i \in Slots |-> EmptyReq]
  /\ logoutRun' = 0
  /\ registerPage' = RegisterPageInit
  /\ projectsPage' = ProjectsPageInit
  /\ onboardingPage' = OnboardingPageInit
  /\ UNCHANGED catchError
  /\ UNCHANGED <<localStorage, issued>>

Next ==
  \/ InitAuth
  \/ \E u \in Users : Login(u)
  \/ \E u \in Users : Register(u)
  \/ RefreshUser
  \/ Logout
  \/ ResourceCall
  \/ \E r \in Slots, s \in {OK} \cup ErrStatuses :
       \E payload \in Payloads(reqs[r].kind, s) : Respond(r, s, payload)
  \/ \E r \in Slots, rot \in BOOLEAN : RefreshOk(r, rot)
  \/ \E r \in Slots, s \in {0, 401} : RefreshFail(r, s)
  \/ Reload

Spec == Init /\ [][Next]_vars

\* The registration page in front of the AuthProvider.
NextRegister ==
  \/ InitAuth
  \/ \E name \in {"password", "confirmPassword"}, value \in Passwords :
       HandleChange(name, value)
  \/ \E u \in Users, viaButton \in BOOLEAN : HandleSubmit(u, viaButton)
  \/ \E r \in Slots, s \in {OK} \cup ErrStatuses :
       \E payload \in Payloads(reqs[r].kind, s) : Respond(r, s, payload)

SpecRegister == Init /\ [][NextRegister]_vars

\* The projects page: a page load with the tokens of an earlier login in
\* storage (the state Reload leaves after a login).
InitProjects ==
  /\ \E u \in Users :
       localStorage = [access_token |-> Token(u, 1), refresh_token |-> Token(u, 1)]
  /\ user = NoUser
  /\ isLoading = TRUE
  /\ booted = FALSE
  /\ href = "none"
  /\ reqs = [i \in Slots |-> EmptyReq]
  /\ issued = 1
  /\ logoutRun = 0
  /\ registerPage = RegisterPageInit
  /\ projectsPage = ProjectsPageInit
  /\ onboardingPage = OnboardingPageInit
  /\ catchError = NoCatch

NextProjects ==
  \/ InitAuth
  \/ MountProjects
  \/ HandleRetry
  \/ RetryTimer
  \/ \E r \in Slots, s \in {OK, ServerError} \cup ErrStatuses :
       \E payload \in Payloads(reqs[r].kind, s) : Respond(r, s, payload)
  \/ \E r \in Slots, rot \in BOOLEAN : RefreshOk(r, rot)
  \/ \E r \in Slots, s \in {0, 401, ServerError} : RefreshFail(r, s)

SpecProjects == InitProjects /\ [][NextProjects]_vars

\* The onboarding wizard, on a page loaded with stored tokens.
NextOnboarding ==
  \/ InitAuth
  \/ \E id \in ServiceIds : ToggleService(id)
  \/ \E country \in CountryNames : ToggleCountry(country)
  \/ \E value \in TimelineOptions : SetTimeline(value)
  \/ HandleNext
  \/ HandleBack
  \/ HandleComplete
  \/ \E r \in Slots, s \in {OK, 400} :
       \E payload \in Payloads(reqs[r].kind, s) : Respond(r, s, payload)

SpecOnboarding == InitProjects /\ [][NextOnboarding]_vars

\* The catch blocks of login and register on every error payload.
InitMessages ==
  /\ localStorage = [access_token |-> NoToken, refresh_token |-> NoToken]
  /\ user = NoUser
  /\ isLoading = TRUE
  /\ booted = FALSE
  /\ href = "none"
  /\ reqs = [i \in Slots |-> EmptyReq]
  /\ issued = 0
  /\ logoutRun = 0
  /\ registerPage = RegisterPageInit
  /\ projectsPage = ProjectsPageInit
  /\ onboardingPage = OnboardingPageInit
  /\ \E data \in SUBSET Fields : catchError = [NoCatch EXCEPT !.data = data]

NextMessages ==
  \/ LoginCatch
  \/ RegisterCatch

SpecMessages == InitMessages /\ [][NextMessages]_vars


\* ================================================================ claims
NoTokens == [access_token |-> NoToken, refresh_token |-> NoToken]
Refreshing == {r \in Slots : reqs[r].kind = "resource" /\ reqs[r].pc = "refreshing"}

\* The request in slot r settles in this step (its caller gets an outcome).
Settles(r) == r \in InFlight(reqs) /\ reqs'[r].pc = "done"

\* C1: of the Resource API requests that received a 401 before any refresh
\* completed, only one has issued a call to the token-refresh endpoint:
\* never are two of their refresh exchanges in flight at the same time.
C1_SingleRefreshInFlight == Cardinality(Refreshing) <= 1

\* C2: every request is sent at most twice and starts at most one refresh;
\* a second send only follows a refresh marked by the _retry flag, it never
\* leads to another refresh, and a 401 answer to it is rejected to the caller.
C2_RetryAtMostOnce ==
  \A r \in Slots :
    /\ reqs[r].sends <= 2
    /\ reqs[r].nrefresh <= 1
    /\ (reqs[r].sends = 2 =>
          /\ reqs[r].retry
          /\ reqs[r].nrefresh = 1
          /\ reqs[r].pc \in {"sent", "done"})
    /\ (reqs[r].sends = 2 /\ reqs[r].pc = "done" /\ reqs[r].last = 401 =>
          reqs[r].outcome = "rejected")

C2_Witness ==
  \E r \in Slots :
    /\ reqs[r].kind = "resource"
    /\ reqs[r].sends = 2
    /\ reqs[r].pc = "done"
    /\ reqs[r].last = 401
    /\ reqs[r].outcome = "rejected"

\* C3: a request whose 401 was followed by a successful refresh is resent
\* exactly once, the resend carries the access token that refresh returned,
\* and the caller's outcome is the answer to the resend (success for a 200),
\* not the intermediate 401.
C3_RetriedWithNewToken ==
  \A r \in Slots :
    reqs[r].newAccess # NoToken =>
      /\ reqs[r].first = 401
      /\ reqs[r].sends = 2
      /\ reqs[r].hdr = reqs[r].newAccess
      /\ (reqs[r].pc = "done" =>
            reqs[r].outcome = IF reqs[r].last = OK THEN "ok" ELSE "rejected")

C3_Witness ==
  \E r \in Slots :
    /\ reqs[r].kind = "resource"
    /\ reqs[r].first = 401
    /\ reqs[r].newAccess # NoToken
    /\ reqs[r].hdr = reqs[r].newAccess
    /\ reqs[r].sends = 2
    /\ reqs[r].pc = "done"
    /\ reqs[r].last = OK
    /\ reqs[r].outcome = "ok"

\* C4: when logout() was called while a profile request was in flight, the
\* successful answer to that request leaves SessionUser null.
C4_StaleProfileDiscarded ==
  [][\A r \in Slots :
       (/\ logoutRun >= 1
        /\ reqs[r].kind = "profile"
        /\ Settles(r)
        /\ reqs'[r].outcome = "ok") => user' = NoUser]_vars

\* C5: the answer to a login, register or token-refresh request that was
\* started before logout() and arrives after it writes no token and sets no
\* user.
C5_NoRehydrateAfterLogout ==
  [][\A r \in Slots :
       (/\ logoutRun >= 1
        /\ \/ reqs[r].kind \in {"login", "register"} /\ Settles(r)
           \/ reqs[r].pc = "refreshing" /\ reqs'[r].pc # "refreshing")
       => (localStorage' = NoTokens /\ user' = NoUser)]_vars

\* C6: when the refresh exchange fails (or no refresh token is stored), both
\* tokens are erased and SessionUser is null right after the failure.
C6_RefreshFailureClearsSession ==
  [][\A r \in Slots :
       (Settles(r) /\ reqs'[r].outcome = "refresh_failed")
       => (localStorage' = NoTokens /\ user' = NoUser)]_vars

\* C7: when a successful refresh returns a rotated refresh token, the stored
\* refresh token after the refresh is the returned one, of the same issuance
\* as the stored access token.
C7_RotatedRefreshStored ==
  [][\A r \in Slots :
       (reqs[r].pc = "refreshing" /\ reqs'[r].newRefresh # NoToken)
       => (/\ localStorage'.refresh_token = reqs'[r].newRefresh
           /\ localStorage'.refresh_token.n = localStorage'.access_token.n)]_vars

\* C8: a login the Identity Service accepts ends with SessionUser set to the
\* returned user (the account of the credentials), isAuthenticated true and
\* exactly the returned access and refresh tokens in storage.
C8_LoginSuccess ==
  [][\A r \in Slots :
       (reqs[r].kind = "login" /\ Settles(r) /\ reqs'[r].outcome = "ok")
       => (/\ reqs'[r].data.u = reqs[r].cred
           /\ user' = reqs'[r].data.u
           /\ isAuthenticated'
           /\ localStorage' = [access_token |-> reqs'[r].data,
                               refresh_token |-> reqs'[r].data])]_vars

C8_Witness ==
  \E r \in Slots :
    /\ reqs[r].kind = "login"
    /\ reqs[r].fromAnon
    /\ reqs[r].pc = "done"
    /\ reqs[r].outcome = "ok"
    /\ user = reqs[r].cred
    /\ localStorage = [access_token |-> reqs[r].data, refresh_token |-> reqs[r].data]

\* C9: a login the Identity Service rejects, started with no stored tokens
\* and settling with none stored, leaves storage without tokens and
\* SessionUser null.
C9_LoginFailureWritesNothing ==
  [][\A r \in Slots :
       (/\ reqs[r].kind = "login"
        /\ reqs[r].fromAnon
        /\ localStorage = NoTokens
        /\ user = NoUser
        /\ Settles(r)
        /\ reqs'[r].outcome # "ok")
       => (localStorage' = NoTokens /\ user' = NoUser)]_vars

C9_Witness ==
  \E r \in Slots :
    /\ reqs[r].kind = "login"
    /\ reqs[r].fromAnon
    /\ reqs[r].pc = "done"
    /\ reqs[r].outcome # "ok"
    /\ reqs[r].last \in {400, 401}
    /\ localStorage = NoTokens
    /\ user = NoUser

\* C10: after logout(), and after a second logout() in succession, the
\* session is anonymous: SessionUser null and neither token in storage.
C10_LogoutIdempotent ==
  logoutRun >= 1 => (user = NoUser /\ localStorage = NoTokens /\ href = "/")

C10_Witness ==
  logoutRun = 2 /\ user = NoUser /\ localStorage = NoTokens


\* C11: logout() has erased both tokens and cleared SessionUser when it
\* issues the notification request (which therefore carries no bearer
\* token), and whatever answer the notification gets, success or failure,
\* the anonymous state stays as it is and nothing reaches the caller
\* (isLoading and user are not touched).
C11_LogoutBeforeNotify ==
  [][\A r \in Slots :
       /\ (reqs[r].kind # "logout" /\ reqs'[r].kind = "logout")
            => (/\ reqs'[r].hdr = NoToken
                /\ user' = NoUser
                /\ localStorage' = NoTokens)
       /\ (/\ reqs[r].kind = "logout"
           /\ Settles(r)
           /\ user = NoUser
           /\ localStorage = NoTokens)
            => (/\ user' = NoUser
                /\ localStorage' = NoTokens
                /\ isLoading' = isLoading)]_vars

C11_Witness ==
  \E r \in Slots :
    /\ reqs[r].kind = "logout"
    /\ reqs[r].hdr = NoToken
    /\ reqs[r].pc = "done"
    /\ reqs[r].outcome # "ok"
    /\ user = NoUser
    /\ localStorage = NoTokens

\* C12: on a page load with a token in storage, when the bootstrap profile
\* call has succeeded and no other call was made on this page (no login, no
\* register), SessionUser is the account of the stored token, the state is
\* authenticated, isLoading is false and the token is still stored.
C12_BootstrapRestoresUser ==
  \A r \in Slots :
    (/\ reqs[r].kind = "profile"
     /\ reqs[r].boot
     /\ reqs[r].pc = "done"
     /\ reqs[r].outcome = "ok"
     /\ \A q \in Slots \ {r} : reqs[q].pc = "idle")
    => (/\ user \in Users
        /\ isAuthenticated
        /\ user = reqs[r].data.u
        /\ user = localStorage.access_token.u
        /\ ~isLoading)

C12_Witness ==
  \E r \in Slots :
    /\ reqs[r].kind = "profile"
    /\ reqs[r].boot
    /\ reqs[r].pc = "done"
    /\ reqs[r].outcome = "ok"
    /\ \A q \in Slots \ {r} : reqs[q].pc = "idle"
    /\ isAuthenticated
    /\ localStorage.refresh_token # NoToken

\* C13: when the profile call of bootstrap fails (rejected, transport
\* failure, or 401 followed by a failed refresh), bootstrap ends with both
\* tokens erased, SessionUser null and isLoading false.
C13_BootstrapFailureAnonymous ==
  [][\A r \in Slots :
       (/\ reqs[r].kind = "profile"
        /\ reqs[r].boot
        /\ Settles(r)
        /\ reqs'[r].outcome # "ok")
       => (/\ localStorage' = NoTokens
           /\ user' = NoUser
           /\ ~isLoading')]_vars

C13_Witness ==
  \E r \in Slots :
    /\ reqs[r].kind = "profile"
    /\ reqs[r].boot
    /\ reqs[r].pc = "done"
    /\ reqs[r].outcome # "ok"
    /\ logoutRun = 2
    /\ localStorage = NoTokens
    /\ user = NoUser
    /\ ~isLoading

\* C14: while the bootstrap profile call is in flight the context never
\* reports isLoading false together with isAuthenticated false.
C14_AuthenticatingWhileBoot ==
  \A r \in Slots :
    (reqs[r].boot /\ r \in InFlight(reqs)) => (isLoading \/ isAuthenticated)

\* C15: a registration submit whose password is shorter than 8 characters or
\* differs from its confirmation issues no request to the registration
\* endpoint, and leaves the page with a validation error and not loading.
InvalidForm ==
  \/ registerPage.password.len < 8
  \/ registerPage.password # registerPage.confirmPassword

ValidationErrors ==
  {"Passwords do not match", "Password must be at least 8 characters long"}

C15_InvalidSubmitFailsLocally ==
  [][InvalidForm =>
       /\ \A r \in Slots : reqs'[r].kind = "register" => reqs[r].kind = "register"
       /\ (\E u \in Users, viaButton \in BOOLEAN : HandleSubmit(u, viaButton))
            => /\ registerPage'.error \in ValidationErrors
               /\ ~registerPage'.isLoading
               /\ reqs' = reqs]_vars

C15_Witness ==
  /\ registerPage.password.len = 7
  /\ registerPage.password = registerPage.confirmPassword
  /\ registerPage.error = "Password must be at least 8 characters long"
  /\ ~registerPage.isLoading
  /\ \A r \in Slots : reqs[r].kind # "register"

\* C16: a register the Identity Service accepts stores exactly the returned
\* access and refresh tokens and sets SessionUser to the returned user; a
\* register that fails stores no token (storage is as it was, or erased) and
\* leaves SessionUser as it was.
C16_RegisterLikeLogin ==
  [][\A r \in Slots :
       (reqs[r].kind = "register" /\ Settles(r))
       => IF reqs'[r].outcome = "ok"
            THEN /\ reqs'[r].data.u = reqs[r].cred
                 /\ user' = reqs'[r].data.u
                 /\ isAuthenticated'
                 /\ localStorage' = [access_token |-> reqs'[r].data,
                                     refresh_token |-> reqs'[r].data]
            ELSE /\ localStorage' \in {localStorage, NoTokens}
                 /\ user' = user]_vars

C16_Witness ==
  \E r \in Slots :
    /\ reqs[r].kind = "register"
    /\ reqs[r].fromAnon
    /\ reqs[r].pc = "done"
    /\ reqs[r].outcome = "ok"
    /\ user = reqs[r].cred
    /\ localStorage = [access_token |-> reqs[r].data, refresh_token |-> reqs[r].data]

\* C17: whenever a request is sent through the api client (first send or
\* resend after a refresh), its Authorization header is the access token in
\* storage at that moment, and it has no header when none is stored.
C17_BearerIsStoredToken ==
  [][\A r \in Slots :
       (reqs'[r].sends > reqs[r].sends)
       => reqs'[r].hdr = localStorage'.access_token]_vars

C17_Witness ==
  \E r \in Slots :
    /\ reqs[r].sends = 2
    /\ reqs[r].pc = "sent"
    /\ reqs[r].hdr # NoToken
    /\ reqs[r].hdr = localStorage.access_token


\* C18: a terminal refresh failure reaches the caller as a SessionExpired
\* error and never as InvalidCredentials: the result of a login() that ended
\* in a failed refresh is not the invalid-credentials message.
C18_RefreshFailureNotInvalidCredentials ==
  \A r \in Slots :
    (/\ reqs[r].kind = "login"
     /\ reqs[r].pc = "done"
     /\ reqs[r].outcome = "refresh_failed")
    => Result(reqs[r]).error # LoginDefault

\* C19: every settled login() or register() has resolved to a structured
\* result: success true with no error exactly when the call succeeded, and
\* success false with a non-empty error message on every failure (rejection
\* with or without payload, transport failure, failed refresh).
C19_StructuredResult ==
  \A r \in Slots :
    (reqs[r].kind \in {"login", "register"} /\ reqs[r].pc = "done")
    => LET res == Result(reqs[r])
       IN /\ reqs[r].outcome \in {"ok", "rejected", "refresh_failed"}
          /\ res.success = (reqs[r].outcome = "ok")
          /\ (res.success => reqs[r].last = OK /\ res.error = "")
          /\ (~res.success => res.error # "")

C19_Witness ==
  \E r, q \in Slots :
    /\ reqs[r].kind = "login"
    /\ reqs[r].pc = "done"
    /\ reqs[r].last = 0
    /\ Result(reqs[r]) = [success |-> FALSE, error |-> LoginDefault]
    /\ reqs[q].kind = "register"
    /\ reqs[q].pc = "done"
    /\ reqs[q].last = 400
    /\ ~Result(reqs[q]).success


C21_LoginUnauthorizedNoRefresh ==
  \A r \in Slots :
    reqs[r].kind = "login"
    => /\ reqs[r].nrefresh = 0
       /\ reqs[r].pc # "refreshing"
       /\ reqs[r].outcome # "refresh_failed"

\* C22: in the projects page the load is retried automatically at most 2
\* times: as long as the user has not asked for a reload (the mount's load
\* is the only one that is not a retry), at most 2 getProjects requests
\* are retries issued by the page's timer, so at most 3 are issued at all.
C22_AutoRetryAtMostTwice ==
  Cardinality({r \in Slots : reqs[r].cap >= 0 /\ ~reqs[r].isRetry}) <= 1
  => /\ Cardinality({r \in Slots : reqs[r].isRetry}) <= 2
     /\ Cardinality({r \in Slots : reqs[r].cap >= 0}) <= 3

\* C23: whenever the user is set (isAuthenticated) an access token is in
\* storage.
C23_AuthenticatedHasToken ==
  isAuthenticated => localStorage.access_token # NoToken

\* C24: the access token is in storage if and only if the refresh token is.
C24_TokensTogether ==
  (localStorage.access_token = NoToken) <=> (localStorage.refresh_token = NoToken)

\* C25: a bootstrap that finds the access token or the refresh token missing
\* issues no profile request and ends anonymous and not loading.
C25_BootstrapNeedsBothKeys ==
  [][(/\ ~booted
      /\ booted'
      /\ \/ localStorage.access_token = NoToken
         \/ localStorage.refresh_token = NoToken)
     => /\ reqs' = reqs
        /\ user' = NoUser
        /\ ~isLoading']_vars

\* C26: the logout notification carries the bearer header of the session
\* being ended: a notification request issued by a step has as header the
\* access token that was stored before the step.
C26_NotificationCarriesBearer ==
  [][\A r \in Slots :
       (reqs[r].pc = "idle" /\ reqs'[r].kind = "logout")
       => reqs'[r].hdr = localStorage.access_token]_vars

\* C27: the answer to a logout notification is ignored: the step in which
\* it arrives settles the request, starts no refresh and leaves the stored
\* tokens as they are.
C27_NotificationAnswerIgnored ==
  [][\A r \in Slots :
       (/\ reqs[r].kind = "logout"
        /\ reqs[r].pc = "sent"
        /\ reqs'[r].kind = "logout"
        /\ reqs'[r] # reqs[r])
       => /\ reqs'[r].pc = "done"
          /\ reqs'[r].nrefresh = 0
          /\ localStorage' = localStorage]_vars

\* C28: a refresh failure is terminal: a request that ended in a refresh
\* failure has been sent once, had at most one refresh exchange posted for
\* it (none when no refresh token was stored) and stays settled.
C28_RefreshFailureTerminal ==
  \A r \in Slots :
    reqs[r].outcome = "refresh_failed"
    => /\ reqs[r].pc = "done"
       /\ reqs[r].sends = 1
       /\ reqs[r].nrefresh <= 1
       /\ reqs[r].retry

C28_Witness ==
  \E r \in Slots :
    /\ reqs[r].kind = "login"
    /\ reqs[r].outcome = "refresh_failed"
    /\ reqs[r].nrefresh = 1
    /\ reqs[r].errs = {"detail"}
    /\ reqs[r].pc = "done"

\* C29: the message of a failed login or register is taken from the first
\* field of the payload, in the order login: non_field_errors, detail and
\* register: email, password, non_field_errors, detail, that is present,
\* and is the fixed default message when none of them is.
LoginOrder == <<"non_field_errors", "detail">>
RegisterOrder == <<"email", "password", "non_field_errors", "detail">>
MessageOf == [email |-> "email[0]", password |-> "password[0]",
              non_field_errors |-> "non_field_errors[0]", detail |-> "detail"]

FirstPresent(order, data, msg, default) ==
  IF \E i \in 1..Len(order) : order[i] \in data
    THEN \E i \in 1..Len(order) :
           /\ order[i] \in data
           /\ \A j \in 1..(i - 1) : order[j] \notin data
           /\ msg = MessageOf[order[i]]
    ELSE msg = default

C29_FirstAvailableField ==
  /\ catchError.login # "none"
       => FirstPresent(LoginOrder, catchError.data, catchError.login,
                       "Login failed. Please check your credentials.")
  /\ catchError.register # "none"
       => FirstPresent(RegisterOrder, catchError.data, catchError.register,
                       "Registration failed. Please try again.")

C29_Witness ==
  /\ catchError.data = {"email", "password", "detail"}
  /\ catchError.login = "detail"
  /\ catchError.register = "email[0]"

\* C30: in the onboarding wizard the step stays in 1..3; step 3 is only
\* reached with a service and a country selected, and a project is only
\* sent from step 3 with a service, a country and a timeline chosen, so
\* none of its fields takes its fallback value.
C30_WizardSteps ==
  /\ onboardingPage.currentStep \in 1..3
  /\ onboardingPage.currentStep = 3
       => /\ onboardingPage.selectedServices # <<>>
          /\ onboardingPage.selectedCountries # <<>>
  /\ onboardingPage.projectData # NoProject
       => /\ onboardingPage.projectData.step = 3
          /\ onboardingPage.projectData.fallbacks = {}
          /\ onboardingPage.projectData.months \in TimelineOptions
  /\ \A r \in Slots : reqs[r].create => onboardingPage.projectData # NoProject

C30_Witness ==
  /\ onboardingPage.projectData.step = 3
  /\ onboardingPage.projectData.project_type = "other"
  /\ onboardingPage.projectData.country = "Nigeria"
  /\ onboardingPage.projectData.months = "1"
  /\ onboardingPage.projectData.fallbacks = {}
  /\ onboardingPage.currentStep = 2
  /\ onboardingPage.selectedCountries = <<>>
  /\ \E r \in Slots : reqs[r].create /\ reqs[r].pc = "done" /\ reqs[r].outcome = "rejected"

=============================================================================
